---- MODULE Spec2Model ----
(***************************************************************************)
(* A model of src/bot_logic.py: the Telegram bot that downloads the audio  *)
(* of a YouTube URL and uploads it to a folder of a MEGA account.          *)
(*                                                                         *)
(* Python strings are sequences of one-character strings, so that          *)
(* str.split, str.strip, str.join, int() and the ordering of strings are   *)
(* computed, not assumed.                                                  *)
(***************************************************************************)
EXTENDS Integers, Sequences, FiniteSets, TLC

(***************************************************************************)
(* Bounds of the model.                                                    *)
(***************************************************************************)
\* Number of node handles a flat listing of the folder-tree model may hold.
MaxNodes == 3

(***************************************************************************)
(* Strings.                                                                *)
(***************************************************************************)
\* None, or the empty string: the falsy results of dict.get in the source.
NoValue == <<>>

\* Code points of the characters the model uses (the order of Python's str).
Ord(c) ==
    CASE c = " " -> 32
      [] c = "/" -> 47
      [] c = "0" -> 48
      [] c = "1" -> 49
      [] c = "2" -> 50
      [] c = "3" -> 51
      [] c = "4" -> 52
      [] c = "5" -> 53
      [] c = "6" -> 54
      [] c = "7" -> 55
      [] c = "8" -> 56
      [] c = "9" -> 57
      [] c = "a" -> 97
      [] c = "c" -> 99
      [] c = "e" -> 101
      [] c = "h" -> 104
      [] c = "o" -> 111
      [] c = "s" -> 115
      [] c = "x" -> 120
      [] c = "y" -> 121
      [] c = "|" -> 124

Digits == <<"0", "1", "2", "3", "4", "5", "6", "7", "8", "9">>

\* a < b for two Python strings (lexicographic by code point).
RECURSIVE StrLess(_, _)
StrLess(a, b) ==
    IF b = <<>> THEN FALSE
    ELSE IF a = <<>> THEN TRUE
    ELSE IF Ord(Head(a)) # Ord(Head(b)) THEN Ord(Head(a)) < Ord(Head(b))
    ELSE StrLess(Tail(a), Tail(b))

\* list.reverse()
RECURSIVE Reverse(_)
Reverse(s) == IF s = <<>> THEN <<>> ELSE Append(Reverse(Tail(s)), Head(s))

\* sep.join(parts)
RECURSIVE Join(_, _)
Join(parts, sep) ==
    IF parts = <<>> THEN <<>>
    ELSE IF Len(parts) = 1 THEN parts[1]
    ELSE parts[1] \o sep \o Join(Tail(parts), sep)

(***************************************************************************)
(* The flat listing of the storage client: node handle -> meta.            *)
(*   t: 1 for a folder, 0 for a file;  n: meta["a"]["n"], NoValue when     *)
(*   missing or empty;  p: meta["p"], NoValue when missing.                *)
(***************************************************************************)
Handle(i) == <<"h", Digits[i + 1]>>
Handles == {Handle(i) : i \in 1..MaxNodes}
HandleSeq == [i \in 1..MaxNodes |-> Handle(i)]

Names == {NoValue, <<"a">>, <<"|">>}
FileMeta == [t |-> 0, n |-> <<"a">>, p |-> NoValue]
Metas == {FileMeta} \cup {[t |-> 1, n |-> n, p |-> p] : n \in Names, p \in Handles \cup {NoValue}}
Listings == UNION {[D -> Metas] : D \in SUBSET Handles}

VARIABLES
    files,          \* what m.get_files() returns for the account
    tpc,            \* position of one run of build_folder_tree
    terr,           \* what build_folder_tree logged: "none", "login", "get_files"
    todo,           \* folder nodes the for loop has still to visit
    nid,            \* the for loop's node
    parts,          \* the while loop's parts
    current_parent, \* the while loop's current_parent
    folder_paths,   \* the list the for loop appends to
    tresult         \* the returned list

treeVars == <<files, tpc, terr, todo, nid, parts, current_parent, folder_paths, tresult>>

\* folder_nodes = {nid: meta for nid, meta in files.items() if meta.get("t") == 1}
folder_nodes(fs) == [k \in {h \in DOMAIN fs : fs[h].t = 1} |-> fs[k]]

\* The condition of the while loop.
WalkCond(fn, cp) == cp # NoValue /\ cp \in DOMAIN fn

\* One iteration of the while loop.
WalkStep_stuck(fn, cp, ps) ==
    [parts |-> IF fn[cp].n # NoValue THEN Append(ps, fn[cp].n) ELSE ps,
     current_parent |-> cp]
WalkStep_keep_unnamed(fn, cp, ps) ==
    [parts |-> Append(ps, fn[cp].n), current_parent |-> fn[cp].p]
WalkStep(fn, cp, ps) ==
    [parts |-> IF fn[cp].n # NoValue THEN Append(ps, fn[cp].n) ELSE ps,
     current_parent |-> fn[cp].p]

\* In a listing of N folder nodes a walk that ends builds at most N parts:
\* past WalkCap the model stops extending parts, which keeps a walk that
\* never ends finite without touching a walk that ends.
WalkCap(fn) == Cardinality(DOMAIN fn) + 1

\* sorted(list(set(folder_paths)), key=lambda x: x[0]): the order of two
\* pairs of equal path is the iteration order of the set, which is any.
SeqToSet(s) == {s[i] : i \in 1..Len(s)}
sorted_by_path_unsorted(S) ==
    {s \in [1..Cardinality(S) -> S] : \A i, j \in 1..Cardinality(S) : i # j => s[i] # s[j]}
sorted_by_path(S) ==
    {s \in [1..Cardinality(S) -> S] :
        /\ \A i, j \in 1..Cardinality(S) : i # j => s[i] # s[j]
        /\ \A i, j \in 1..Cardinality(S) : i < j => ~StrLess(s[j][1], s[i][1])}

(***************************************************************************)
(* build_folder_tree as one call, for the handlers: the lists it can       *)
(* return. Walk is the while loop run to its end; fuel is WalkCap, which   *)
(* a walk over an acyclic listing never uses up.                           *)
(***************************************************************************)
RECURSIVE Walk(_, _, _, _)
Walk(fn, cp, ps, fuel) ==
    IF WalkCond(fn, cp) /\ fuel > 0
    THEN LET s == WalkStep(fn, cp, ps) IN Walk(fn, s.current_parent, s.parts, fuel - 1)
    ELSE ps

FolderPathSet(fs) ==
    LET fn == folder_nodes(fs) IN
    {<<Join(Reverse(Walk(fn, fn[h].p, <<fn[h].n>>, WalkCap(fn))), <<"/">>), h>> :
        h \in {k \in DOMAIN fn : fn[k].n # NoValue}}

build_folder_tree(loginOk, listOk, fs) ==
    IF loginOk /\ listOk THEN sorted_by_path(FolderPathSet(fs)) ELSE {<<>>}

(***************************************************************************)
(* The bot.                                                                *)
(***************************************************************************)
\* Handler invocations (updates handled) in one behaviour in which the
\* handlers of two updates may overlap.
MaxTasks == 3
\* Handler invocations in one behaviour in which updates are handled one at
\* a time.
MaxSeqTasks == 4

\* executor = ThreadPoolExecutor(max_workers=4)
max_workers == 4

\* Telegram user ids.
Users == {1, 2}

\* str(uid)
RECURSIVE IntToStr(_)
IntToStr(i) == IF i < 10 THEN <<Digits[i + 1]>> ELSE IntToStr(i \div 10) \o <<Digits[(i % 10) + 1]>>

\* s.strip(), for the whitespace the model has: the space.
RECURSIVE LStrip(_)
LStrip(s) == IF s # <<>> /\ Head(s) = " " THEN LStrip(Tail(s)) ELSE s
Strip_identity(s) == s
Strip(s) == Reverse(LStrip(Reverse(LStrip(s))))

\* s.split(sep) for a one-character sep: the fields, never an empty list.
RECURSIVE Split(_, _)
Split(s, sep) ==
    IF s = <<>> THEN <<(<<>>)>>
    ELSE LET rest == Split(Tail(s), sep) IN
         IF Head(s) = sep THEN <<(<<>>)>> \o rest
         ELSE <<(<<Head(s)>> \o rest[1])>> \o Tail(rest)

\* int(s): surrounding whitespace dropped, then one or more decimal digits;
\* ValueError stands for the exception. (Signs and underscores are not in the
\* alphabet of the model.)
ValueError == -1
DigitValue(c) == CHOOSE d \in 0..9 : Digits[d + 1] = c
IsDigit(c) == \E d \in 0..9 : Digits[d + 1] = c
RECURSIVE DigitsToInt(_, _)
DigitsToInt(s, acc) ==
    IF s = <<>> THEN acc ELSE DigitsToInt(Tail(s), 10 * acc + DigitValue(Head(s)))
ParseInt(s) ==
    LET t == Strip(s) IN
    IF t # <<>> /\ \A i \in 1..Len(t) : IsDigit(t[i]) THEN DigitsToInt(t, 0) ELSE ValueError

\* callback_data=f"choose|{uid}|{nid}|{path}"
Choose == <<"c", "h", "o", "o", "s", "e">>
CallbackData(uid, n, path) == Choose \o <<"|">> \o IntToStr(uid) \o <<"|">> \o n \o <<"|">> \o path

\* action, uid, nodeid, folder_path = query.data.split("|"); uid = int(uid)
ParseCallback_maxsplit(data) ==
    LET f == Split(data, "|") IN
    IF Len(f) < 4 \/ ParseInt(f[2]) = ValueError THEN [ok |-> FALSE]
    ELSE [ok |-> TRUE, uid |-> ParseInt(f[2]), nodeid |-> f[3],
          folder_path |-> Join(SubSeq(f, 4, Len(f)), <<"|">>)]
ParseCallback(data) ==
    LET f == Split(data, "|") IN
    IF Len(f) # 4 \/ ParseInt(f[2]) = ValueError THEN [ok |-> FALSE]
    ELSE [ok |-> TRUE, uid |-> ParseInt(f[2]), nodeid |-> f[3], folder_path |-> f[4]]

\* context.args of a /uploadtomega message.
ArgLists == {<<>>, <<(<<" ", "x">>)>>, <<(<<"y">>), <<"x">>>>}

\* Callback data no button of the bot carries: a uid that is no integer.
ForgedData == {Choose \o <<"|", "x", "|", "h", "1", "|", "a">>}

\* The MEGA account of the bot: no folder at all, or folder h1 "a", inside it
\* folder h2 "|", and a file.
EmptyAccount == [h \in {Handle(3)} |-> FileMeta]
FolderAccount ==
    (Handle(1) :> [t |-> 1, n |-> <<"a">>, p |-> NoValue])
    @@ (Handle(2) :> [t |-> 1, n |-> <<"|">>, p |-> Handle(1)])
    @@ (Handle(3) :> FileMeta)
BotAccounts == {EmptyAccount, FolderAccount}

\* os.path.join(DOWNLOAD_DIR, title + ".mp3") of the file yt-dlp writes for
\* url: two urls of the model have two titles.
Mp3Path(url) == <<"temp_downloads">> \o url \o <<".mp3">>
\* An mp3 that an upload which failed before the bot was started left behind.
OldFile == Mp3Path(<<"o">>)

\* USER_SESSIONS has no key uid. (owner: the /uploadtomega invocation that
\* stored the session, which the source does not keep.)
NoSession == [present |-> FALSE, url |-> NoValue, folders |-> NoValue, owner |-> 0]
\* A button: its callback data, and the uid, folder id and path it was built
\* from (NoButton for data no button carries).
NoButton == [uid |-> 0, nid |-> NoValue, path |-> NoValue]
Forged(data) == [data |-> data, uid |-> 0, nid |-> NoValue, path |-> NoValue]

\* A handler invocation: its locals (uid, url, nodeid, path, mp3, msg: the
\* text its message shows, exc: the exception that text carries, fut: the
\* result of its call on the executor), and what the source does not keep:
\* sender (the user of the update), log (what build_folder_tree logged), dl
\* and up (how extract_info and the upload ended), origin and btn (the
\* command and the button of the pressed keyboard), sess (the command that
\* stored the session read), and in last: id, ev ("start" or "return") and
\* args (context.args). data is query.data.
NoTask ==
    [kind |-> "none", pc |-> "idle", sender |-> 0, uid |-> 0, url |-> NoValue,
     nodeid |-> NoValue, path |-> NoValue, mp3 |-> NoValue, exc |-> "none",
     msg |-> "none", keyboard |-> <<>>, fut |-> <<>>, dl |-> "none", up |-> "none",
     log |-> "none", origin |-> 0, btn |-> NoButton, sess |-> 0, id |-> 0, ev |-> "none",
     args |-> <<>>, data |-> NoValue]

VARIABLES
    mainPc,             \* main(): "start", "polling" (app.run_polling()), "exited"
    token,              \* whether TELEGRAM_BOT_TOKEN is set
    concurrent_updates, \* whether the framework runs handlers of two updates at once
    health,             \* the health-check thread: "off", "listening", "crashed"
    lastProbe,          \* how the last probe connection ended: "none", "200", "failed", "refused"
    USER_SESSIONS,      \* uid -> session, or NoSession
    tasks,              \* handler invocations, by number
    ntasks,             \* handler invocations so far
    queue,              \* the executor's work queue: tasks whose call waits for a worker
    loop,               \* the task whose blocking call holds the event loop, 0 if none
    dir,                \* temp_downloads: its mp3 files, oldest mtime first
    performed,          \* by the command that stored a session: the calls of
                        \* ydl.extract_info (dl) and the uploads done (up) by the
                        \* flows that read that session, which the source does not keep
    last                \* the handler invocation the last step started or returned
                        \* from, as that step left it (NoTask when it did neither)

botVars == <<mainPc, token, concurrent_updates, health, lastProbe, USER_SESSIONS, tasks,
             ntasks, queue, loop, dir, performed, last>>
vars == <<treeVars, botVars>>

TaskIds == 1..(IF MaxTasks < MaxSeqTasks THEN MaxSeqTasks ELSE MaxTasks)

BotInitVars ==
    /\ mainPc = "start"
    /\ health = "off"
    /\ lastProbe = "none"
    /\ USER_SESSIONS = [u \in Users |-> NoSession]
    /\ tasks = [t \in TaskIds |-> NoTask]
    /\ ntasks = 0
    /\ queue = <<>>
    /\ loop = 0
    /\ performed = [c \in TaskIds |-> [dl |-> 0, up |-> 0]]
    /\ last = NoTask

Running == {t \in TaskIds : tasks[t].pc \in {"tree_running", "dl_extract", "dl_list"}}
InHandler == {t \in TaskIds : tasks[t].pc \notin {"idle", "done"}}
\* A step of a coroutine needs the event loop.
LoopFree == mainPc = "polling" /\ loop = 0
\* The framework starts the handler of the next update. main builds the
\* Application without setting concurrent_updates, so whether the handlers
\* of two updates may overlap is the framework's choice: both are modelled.
MayDispatch ==
    /\ LoopFree
    /\ IF concurrent_updates THEN ntasks < MaxTasks
       ELSE ntasks < MaxSeqTasks /\ InHandler = {}

\* The file f written (or written again) now: it becomes the newest.
WriteFile(d, f) == Append(SelectSeq(d, LAMBDA g : g # f), f)
RemoveFile(d, f) == SelectSeq(d, LAMBDA g : g # f)
Exists(d, f) == \E i \in 1..Len(d) : d[i] = f

(***************************************************************************)
(* main() and the health-check thread.                                     *)
(***************************************************************************)
\* start_health_check_server(): the thread is started, binds and listens.
start_health_check_server ==
    /\ mainPc = "start"
    /\ mainPc' = "health_started"
    /\ health' = "listening"
    /\ UNCHANGED <<treeVars, token, concurrent_updates, lastProbe, USER_SESSIONS, tasks,
                   ntasks, queue,
                   loop, dir, last,
                   performed>>

\* The rest of main(): without a token it returns, and the process ends with
\* its daemon thread; with one it polls for updates.
main_run ==
    /\ mainPc = "health_started"
    /\ IF token THEN mainPc' = "polling" /\ health' = health
       ELSE mainPc' = "exited" /\ health' = "off"
    /\ UNCHANGED <<treeVars, token, concurrent_updates, lastProbe, USER_SESSIONS, tasks,
                   ntasks, queue,
                   loop, dir, last,
                   performed>>

\* One probe connection: accepted, read and answered by run_server; or recv or
\* sendall raises, which leaves the while loop for the except clause and ends
\* the thread; or, the thread gone, nobody accepts it.
run_server_probe(outcome) ==
    /\ mainPc \in {"health_started", "polling"}
    /\ IF health = "listening"
       THEN /\ lastProbe' = IF outcome = "ok" THEN "200" ELSE "failed"
            /\ health' = IF outcome = "ok" THEN "listening" ELSE "crashed"
       ELSE /\ lastProbe' = "refused"
            /\ health' = health
    /\ UNCHANGED <<treeVars, mainPc, token, concurrent_updates, USER_SESSIONS, tasks,
                   ntasks, queue,
                   loop, dir, last,
                   performed>>

(***************************************************************************)
(* Handler invocations. A handler that has returned leaves in tasks only   *)
(* what the chat still shows of it that can be acted on, its keyboard      *)
(* with the uid it was built for; how it returned is in last for one step. *)
(***************************************************************************)
Residue(rec) ==
    IF rec.keyboard # <<>>
    THEN [NoTask EXCEPT !.kind = "cmd", !.pc = "done", !.uid = rec.uid, !.keyboard = rec.keyboard]
    ELSE [NoTask EXCEPT !.pc = "done"]

Returns(t, rec) ==
    /\ tasks' = [tasks EXCEPT ![t] = Residue(rec)]
    /\ last' = [rec EXCEPT !.id = t, !.pc = "done", !.ev = "return"]

Starts(t, rec, args) ==
    /\ tasks' = [tasks EXCEPT ![t] = rec]
    /\ last' = [rec EXCEPT !.id = t, !.ev = "start", !.args = args]

Continues(t, rec) ==
    /\ tasks' = [tasks EXCEPT ![t] = rec]
    /\ last' = NoTask

(***************************************************************************)
(* /uploadtomega.                                                          *)
(***************************************************************************)
\* Lines 182-196: the usage reply, or the session stored, the "Fetching"
\* reply sent and build_folder_tree handed to the executor.
NewSession(url, t) == [present |-> TRUE, url |-> url, folders |-> NoValue, owner |-> t]
uploadtomega(u, args) ==
    /\ MayDispatch
    /\ ntasks' = ntasks + 1
    /\ LET new == [NoTask EXCEPT !.kind = "cmd", !.sender = u, !.uid = u] IN
       IF args = <<>>
       THEN /\ Returns(ntasks + 1, [new EXCEPT !.msg = "usage", !.args = args])
            /\ UNCHANGED <<USER_SESSIONS, queue>>
       ELSE /\ USER_SESSIONS' = [USER_SESSIONS EXCEPT ![u] = NewSession(Strip(args[1]), ntasks + 1)]
            /\ Starts(ntasks + 1, [new EXCEPT !.pc = "tree_queued", !.url = Strip(args[1]),
                                              !.msg = "fetching"], args)
            /\ queue' = Append(queue, ntasks + 1)
    /\ UNCHANGED <<treeVars, mainPc, token, concurrent_updates, health, lastProbe, loop,
                   dir,
                   performed>>

\* A worker of the pool takes the oldest call of the work queue.
executor_take ==
    /\ mainPc = "polling"
    /\ queue # <<>>
    /\ Cardinality(Running) < max_workers
    /\ Continues(Head(queue), [tasks[Head(queue)] EXCEPT !.pc =
            IF @ = "tree_queued" THEN "tree_running" ELSE "dl_extract"])
    /\ queue' = Tail(queue)
    /\ UNCHANGED <<treeVars, mainPc, token, concurrent_updates, health, lastProbe,
                   USER_SESSIONS, ntasks,
                   loop, dir,
                   performed>>

\* build_folder_tree() on its worker: the login and the listing each raise or
\* not; log is what the function logged.
run_build_folder_tree(t) ==
    /\ mainPc = "polling"
    /\ tasks[t].pc = "tree_running"
    /\ \E loginOk, listOk \in BOOLEAN :
        \E r \in build_folder_tree(loginOk, listOk, files) :
            Continues(t, [tasks[t] EXCEPT !.pc = "tree_done", !.fut = r,
                            !.log = IF ~loginOk THEN "login"
                                    ELSE IF ~listOk THEN "get_files" ELSE "none"])
    /\ UNCHANGED <<treeVars, mainPc, token, concurrent_updates, health, lastProbe,
                   USER_SESSIONS, ntasks,
                   queue, loop, dir,
                   performed>>

\* Lines 196-221, from the result of the executor on. msg.edit_text inside
\* the try block raises or not (tgOk); the session of uid may be gone, and
\* USER_SESSIONS[uid]["folders"] = folders then raises KeyError.
Keyboard(uid, folders) ==
    [i \in 1..Len(folders) |->
        [data |-> CallbackData(uid, folders[i][2], folders[i][1]),
         uid |-> uid, nid |-> folders[i][2], path |-> folders[i][1]]]
uploadtomega_resume(t) ==
    /\ LoopFree
    /\ tasks[t].pc = "tree_done"
    /\ LET folders == tasks[t].fut
           uid == tasks[t].uid
           rec == [tasks[t] EXCEPT !.fut = <<>>]
       IN \E tgOk \in BOOLEAN :
           IF folders = <<>>
           THEN /\ Returns(t, [rec EXCEPT !.msg = IF tgOk THEN "no_folders" ELSE "fetch_error",
                                          !.exc = IF tgOk THEN "none" ELSE "telegram"])
                /\ UNCHANGED USER_SESSIONS
           ELSE IF ~USER_SESSIONS[uid].present
           THEN /\ Returns(t, [rec EXCEPT !.msg = "fetch_error", !.exc = "KeyError"])
                /\ UNCHANGED USER_SESSIONS
           ELSE /\ USER_SESSIONS' = [USER_SESSIONS EXCEPT ![uid].folders = folders]
                /\ Returns(t, [rec EXCEPT !.msg = IF tgOk THEN "select" ELSE "fetch_error",
                                          !.exc = IF tgOk THEN "none" ELSE "telegram",
                                          !.keyboard = IF tgOk THEN Keyboard(uid, folders)
                                                       ELSE <<>>])
    /\ UNCHANGED <<treeVars, mainPc, token, concurrent_updates, health, lastProbe,
                   ntasks, queue, loop, dir,
                   performed>>

(***************************************************************************)
(* The callback of a folder button.                                        *)
(***************************************************************************)
\* Lines 225-245: the data parsed, the session looked up, the "Downloading"
\* text shown and download_mp3 handed to the executor. sender is
\* query.from_user, which the handler does not read; b.data is query.data;
\* origin is the command whose message carried the button b, 0 for data no
\* button carries.
callback_handler(sender, b, origin) ==
    /\ MayDispatch
    /\ ntasks' = ntasks + 1
    /\ LET q == ParseCallback(b.data)
           new == [NoTask EXCEPT !.kind = "cb", !.sender = sender, !.origin = origin,
                                 !.data = b.data,
                                 !.btn = [uid |-> b.uid, nid |-> b.nid, path |-> b.path]]
       IN
       IF ~q.ok
       THEN /\ Returns(ntasks + 1, [new EXCEPT !.msg = "invalid"])
            /\ UNCHANGED <<USER_SESSIONS, queue>>
       ELSE IF q.uid \notin Users \/ ~USER_SESSIONS[q.uid].present
       THEN /\ Returns(ntasks + 1, [new EXCEPT !.uid = q.uid, !.msg = "expired"])
            /\ UNCHANGED <<USER_SESSIONS, queue>>
       ELSE /\ Starts(ntasks + 1,
                    [new EXCEPT !.pc = "dl_queued", !.uid = q.uid, !.nodeid = q.nodeid,
                                !.path = q.folder_path, !.url = USER_SESSIONS[q.uid].url,
                                !.sess = USER_SESSIONS[q.uid].owner, !.msg = "downloading"],
                    <<>>)
            /\ UNCHANGED USER_SESSIONS
            /\ queue' = Append(queue, ntasks + 1)
    /\ UNCHANGED <<treeVars, mainPc, token, concurrent_updates, health, lastProbe, loop,
                   dir,
                   performed>>

\* download_mp3 on its worker, lines 137-155: ydl.extract_info raises, or
\* writes the mp3 of the url, or returns having written none (the case line
\* 163 tests for). The call is counted for the session the flow read.
download_mp3_extract(t) ==
    /\ mainPc = "polling"
    /\ tasks[t].pc = "dl_extract"
    /\ \E out \in {"raises", "mp3", "nothing"} :
        /\ Continues(t, [tasks[t] EXCEPT !.pc = IF out = "raises" THEN "dl_done" ELSE "dl_list",
                                         !.dl = IF out = "raises" THEN "failed" ELSE out,
                                         !.exc = IF out = "raises" THEN "download" ELSE @])
        /\ dir' = IF out = "mp3" THEN WriteFile(dir, Mp3Path(tasks[t].url)) ELSE dir
    /\ performed' = [performed EXCEPT ![tasks[t].sess].dl = @ + 1]
    /\ UNCHANGED <<treeVars, mainPc, token, concurrent_updates, health, lastProbe,
                   USER_SESSIONS, ntasks,
                   queue, loop>>

\* download_mp3, lines 157-167: the newest mp3 of the directory, or
\* RuntimeError("MP3 output not found.").
NewestMp3(d) == d[Len(d)]
download_mp3_list(t) ==
    /\ mainPc = "polling"
    /\ tasks[t].pc = "dl_list"
    /\ IF dir = <<>>
       THEN Continues(t, [tasks[t] EXCEPT !.pc = "dl_done", !.dl = "failed", !.exc = "no_mp3"])
       ELSE Continues(t, [tasks[t] EXCEPT !.pc = "dl_done", !.mp3 = NewestMp3(dir)])
    /\ UNCHANGED <<treeVars, mainPc, token, concurrent_updates, health, lastProbe,
                   USER_SESSIONS, ntasks,
                   queue, loop, dir,
                   performed>>

\* Lines 245-253: the download failed and the handler returns, or the
\* "Uploading" text is shown and the handler enters mega_login() and
\* mega.upload() on the event loop.
callback_resume(t) ==
    /\ LoopFree
    /\ tasks[t].pc = "dl_done"
    /\ IF tasks[t].dl = "failed"
       THEN /\ Returns(t, [tasks[t] EXCEPT !.msg = "dl_failed"])
            /\ UNCHANGED loop
       ELSE /\ Continues(t, [tasks[t] EXCEPT !.pc = "uploading", !.msg = "uploading"])
            /\ loop' = t
    /\ UNCHANGED <<treeVars, mainPc, token, concurrent_updates, health, lastProbe,
                   USER_SESSIONS, ntasks,
                   queue, dir,
                   performed>>

\* Lines 253-270: the login and the upload end (the upload of a file that is
\* gone raises), then the "Upload Complete" text and os.remove, which raise
\* or not (reportOk), all inside one try block; then the session is popped.
callback_upload(t) ==
    /\ mainPc = "polling"
    /\ tasks[t].pc = "uploading"
    /\ loop = t
    /\ \E loginOk, uploadOk, reportOk \in BOOLEAN :
        LET uploaded == loginOk /\ uploadOk /\ Exists(dir, tasks[t].mp3) IN
        /\ Returns(t, [tasks[t] EXCEPT
                        !.up = IF uploaded THEN "ok" ELSE "failed",
                        !.exc = IF ~loginOk THEN "login"
                                ELSE IF ~uploaded THEN "upload"
                                ELSE IF ~reportOk THEN "report" ELSE "none",
                        !.msg = IF uploaded /\ reportOk THEN "complete" ELSE "up_failed"])
        /\ dir' = IF uploaded /\ reportOk THEN RemoveFile(dir, tasks[t].mp3) ELSE dir
        /\ performed' = [performed EXCEPT ![tasks[t].sess].up = IF uploaded THEN @ + 1 ELSE @]
    /\ USER_SESSIONS' = [USER_SESSIONS EXCEPT ![tasks[t].uid] = NoSession]
    /\ loop' = 0
    /\ UNCHANGED <<treeVars, mainPc, token, concurrent_updates, health, lastProbe,
                   ntasks, queue>>

(***************************************************************************)
(* build_folder_tree, one step at a time.                                  *)
(***************************************************************************)
TreeInitVars ==
    /\ tpc = "login"
    /\ terr = "none"
    /\ todo = <<>>
    /\ nid = NoValue
    /\ parts = <<>>
    /\ current_parent = NoValue
    /\ folder_paths = <<>>
    /\ tresult = <<>>

\* m = mega_login(), which raises or returns the client.
TreeLogin ==
    /\ tpc = "login"
    /\ \E ok \in BOOLEAN :
        IF ok THEN tpc' = "get_files" /\ terr' = terr
        ELSE tpc' = "done" /\ terr' = "login"
    /\ UNCHANGED <<botVars, files, todo, nid, parts, current_parent, folder_paths, tresult>>

\* files = m.get_files(), which raises or returns the listing.
TreeGetFiles ==
    /\ tpc = "get_files"
    /\ \E ok \in BOOLEAN :
        IF ok
        THEN /\ tpc' = "for"
             /\ terr' = terr
             /\ todo' = SelectSeq(HandleSeq, LAMBDA h : h \in DOMAIN folder_nodes(files))
        ELSE tpc' = "done" /\ terr' = "get_files" /\ todo' = todo
    /\ UNCHANGED <<botVars, files, nid, parts, current_parent, folder_paths, tresult>>

\* for nid, meta in folder_nodes.items(): up to the while loop.
TreeFor ==
    /\ tpc = "for"
    /\ IF todo = <<>>
       THEN /\ tpc' = "return"
            /\ UNCHANGED <<todo, nid, parts, current_parent>>
       ELSE LET meta == folder_nodes(files)[Head(todo)] IN
            /\ todo' = Tail(todo)
            /\ nid' = Head(todo)
            /\ IF meta.n = NoValue
               THEN UNCHANGED <<tpc, parts, current_parent>>
               ELSE /\ tpc' = "while"
                    /\ parts' = <<meta.n>>
                    /\ current_parent' = meta.p
    /\ UNCHANGED <<botVars, files, terr, folder_paths, tresult>>

\* The test of the while condition: into the body, or on to the lines after
\* the loop.
TreeWhile ==
    /\ tpc = "while"
    /\ IF WalkCond(folder_nodes(files), current_parent)
       THEN /\ tpc' = "body"
            /\ UNCHANGED folder_paths
       ELSE /\ folder_paths' = Append(folder_paths, <<Join(Reverse(parts), <<"/">>), nid>>)
            /\ tpc' = "for"
    /\ UNCHANGED <<botVars, files, terr, todo, nid, parts, current_parent, tresult>>

\* The body of the while loop.
TreeBody ==
    /\ tpc = "body"
    /\ LET fn == folder_nodes(files)
           s == WalkStep(fn, current_parent, parts)
       IN /\ parts' = IF Len(parts) < WalkCap(fn) THEN s.parts ELSE parts
          /\ current_parent' = s.current_parent
    /\ tpc' = "while"
    /\ UNCHANGED <<botVars, files, terr, todo, nid, folder_paths, tresult>>

TreeReturn ==
    /\ tpc = "return"
    /\ \E s \in sorted_by_path(SeqToSet(folder_paths)) : tresult' = s
    /\ tpc' = "done"
    /\ UNCHANGED <<botVars, files, terr, todo, nid, parts, current_parent, folder_paths>>

build_folder_tree_step ==
    TreeLogin \/ TreeGetFiles \/ TreeFor \/ TreeWhile \/ TreeBody \/ TreeReturn

(***************************************************************************)
(* The specifications.                                                     *)
(***************************************************************************)
Init ==
    /\ files \in BotAccounts
    /\ dir \in {<<>>, <<OldFile>>}
    /\ TreeInitVars
    /\ BotInitVars
    /\ token \in BOOLEAN
    /\ concurrent_updates \in BOOLEAN

\* The steps of the handlers and of the pool, for updates of the users us
\* with the arguments as.
BotStep(us, as) ==
    \/ \E u \in us, args \in as : uploadtomega(u, args)
    \/ executor_take
    \/ \E t \in TaskIds : run_build_folder_tree(t)
    \/ \E t \in TaskIds : uploadtomega_resume(t)
    \/ \E sender \in us, c \in TaskIds :
         \E i \in 1..Len(tasks[c].keyboard) : callback_handler(sender, tasks[c].keyboard[i], c)
    \/ \E sender \in us, data \in ForgedData : callback_handler(sender, Forged(data), 0)
    \/ \E t \in TaskIds : download_mp3_extract(t)
    \/ \E t \in TaskIds : download_mp3_list(t)
    \/ \E t \in TaskIds : callback_resume(t)
    \/ \E t \in TaskIds : callback_upload(t)

Next ==
    \/ start_health_check_server
    \/ main_run
    \/ BotStep(Users, ArgLists)

Spec == Init /\ [][Next]_vars

\* The bot of one user with the probes of the hosting platform.
NextHealth ==
    \/ start_health_check_server
    \/ main_run
    \/ \E outcome \in {"ok", "recv_raises", "sendall_raises"} : run_server_probe(outcome)
    \/ BotStep({1}, {<<(<<"x">>)>>})

SpecHealth == Init /\ [][NextHealth]_vars

\* The bot as main builds it with the framework's default, concurrent_updates
\* False: the handler of an update has returned before the next one starts.
InitSeq == Init /\ concurrent_updates = FALSE
SpecSeq == InitSeq /\ [][Next]_vars

InitTree ==
    /\ files \in Listings
    /\ dir = <<>>
    /\ TreeInitVars
    /\ BotInitVars
    /\ token = TRUE
    /\ concurrent_updates = FALSE
NextTree == build_folder_tree_step
SpecTree == InitTree /\ [][NextTree]_vars
\* The worker thread that runs build_folder_tree keeps running.
SpecTreeFair == SpecTree /\ WF_vars(NextTree)

(***************************************************************************)
(* Definitions the claims about build_folder_tree are stated with.         *)
(***************************************************************************)
\* The folder nodes reached from h by following p links, at most k of them.
RECURSIVE AncestorsUpTo(_, _, _)
AncestorsUpTo(fn, h, k) ==
    IF k = 0 \/ fn[h].p \notin DOMAIN fn THEN {}
    ELSE {fn[h].p} \cup AncestorsUpTo(fn, fn[h].p, k - 1)
Ancestors(fn, h) == AncestorsUpTo(fn, h, Cardinality(DOMAIN fn))
Acyclic(fn) == \A h \in DOMAIN fn : h \notin Ancestors(fn, h)
NamedFolders(fn) == {h \in DOMAIN fn : fn[h].n # NoValue}

\* The names of h and of its folder-type ancestors, outermost first, unnamed
\* ones left out; empty when h is no folder-type node. k bounds the descent.
RECURSIVE ChainNames(_, _, _)
ChainNames(fn, h, k) ==
    IF k = 0 \/ h \notin DOMAIN fn THEN <<>>
    ELSE ChainNames(fn, fn[h].p, k - 1) \o (IF fn[h].n # NoValue THEN <<fn[h].n>> ELSE <<>>)
ExpectedPath(fn, h) == Join(ChainNames(fn, h, Cardinality(DOMAIN fn)), <<"/">>)

\* C5: on a listing whose parent links are acyclic, a run of build_folder_tree
\* whose login and listing succeeded returns exactly one (path, id) pair for
\* each folder-type node with a non-empty name and none for any other node,
\* the path being the names of the node's folder-type ancestors, outermost
\* first, then its own name, joined by "/", unnamed ancestors left out.
C5_PathsOfNamedFolders ==
    LET fn == folder_nodes(files) IN
    (tpc = "done" /\ terr = "none" /\ Acyclic(fn)) =>
        /\ Len(tresult) = Cardinality(NamedFolders(fn))
        /\ SeqToSet(tresult) = {<<ExpectedPath(fn, h), h>> : h \in NamedFolders(fn)}

\* A finished run over three folders in a chain, the middle one unnamed,
\* beside no other node: two pairs, the inner path skipping the middle.
C5_Witness ==
    LET fn == folder_nodes(files) IN
    /\ tpc = "done" /\ terr = "none" /\ Acyclic(fn)
    /\ Cardinality(DOMAIN fn) = 3
    /\ \E h \in NamedFolders(fn) :
        /\ fn[h].p \in DOMAIN fn /\ fn[fn[h].p].n = NoValue
        /\ fn[fn[h].p].p \in NamedFolders(fn)
        /\ <<ExpectedPath(fn, h), h>> \in SeqToSet(tresult)
        /\ Len(ExpectedPath(fn, h)) = 3

\* C9 as claimed: every run of build_folder_tree returns, whatever the listing.
C9_AlwaysTerminates == <>(tpc = "done")

\* C9 as amended: on a listing whose folder parent links are acyclic every run
\* of build_folder_tree returns.
C9_AcyclicTerminates == Acyclic(folder_nodes(files)) ~> (tpc = "done")

\* A run over an acyclic listing that returned after walking a chain of two
\* ancestors.
C9_Witness ==
    LET fn == folder_nodes(files) IN
    /\ tpc = "done" /\ terr = "none" /\ Acyclic(fn)
    /\ \E h \in NamedFolders(fn) : Cardinality(Ancestors(fn, h)) = 2

(***************************************************************************)
(* Definitions the claims about the handlers are stated with.              *)
(***************************************************************************)
\* last is a callback that found a session and started the flow, returning.
FlowReturned ==
    last.kind = "cb" /\ last.ev = "return" /\ last.msg \notin {"invalid", "expired"}

\* s is n spaces.
Spaces(s) == \A i \in 1..Len(s) : s[i] = " "
\* s is a with the whitespace around it stripped.
IsStripped(s, a) ==
    /\ s = <<>> \/ (s[1] # " " /\ s[Len(s)] # " ")
    /\ \E i \in 0..Len(a) :
        /\ i + Len(s) <= Len(a)
        /\ SubSeq(a, i + 1, i + Len(s)) = s
        /\ Spaces(SubSeq(a, 1, i))
        /\ Spaces(SubSeq(a, i + Len(s) + 1, Len(a)))

\* C1: a run of callback_handler that found a session for the uid of the
\* button data and started the flow returns with USER_SESSIONS holding no
\* entry for that uid, however the flow ended.
C1_FlowEndsWithoutSession == FlowReturned => ~USER_SESSIONS[last.uid].present

\* C2: the last text of a flow is "Upload Complete" exactly when the download
\* and the upload both succeeded; a failed download ends on "YouTube download
\* failed" with the exception of the download, a failed login or upload on
\* "Upload failed" with that exception; a flow whose upload succeeded never
\* ends on a failure text.
C2_LastTextTellsOutcome ==
    FlowReturned =>
        /\ last.msg = "complete" <=> (last.dl # "failed" /\ last.up = "ok")
        /\ last.dl = "failed" => (last.msg = "dl_failed" /\ last.exc \in {"download", "no_mp3"})
        /\ (last.dl # "failed" /\ last.up = "failed") =>
                (last.msg = "up_failed" /\ last.exc \in {"login", "upload"})
        /\ last.up = "ok" => last.msg \notin {"dl_failed", "up_failed"}

\* C3: the file a flow passes to mega.upload is the file of the URL of the
\* session the flow read, and the folder id it passes is the one of the
\* button that was pressed.
C3_UploadsTheDownloadedFile ==
    \A t \in TaskIds :
        tasks[t].pc = "uploading" =>
            /\ tasks[t].mp3 = Mp3Path(tasks[t].url)
            /\ tasks[t].nodeid = tasks[t].btn.nid

\* C4: the first step of /uploadtomega from user u with an argument leaves
\* USER_SESSIONS[u] a new session whose url is the first argument stripped,
\* with nothing of an earlier session of u, and the sessions of the other
\* users as they were; without an argument it replies with the usage text
\* and leaves USER_SESSIONS as it was.
C4_CommandStoresStrippedUrl ==
    [][(ntasks' = ntasks + 1 /\ last'.kind = "cmd") =>
          IF last'.args = <<>>
          THEN last'.msg = "usage" /\ last'.ev = "return" /\ USER_SESSIONS' = USER_SESSIONS
          ELSE /\ USER_SESSIONS'[last'.uid].present
               /\ IsStripped(USER_SESSIONS'[last'.uid].url, last'.args[1])
               /\ USER_SESSIONS'[last'.uid].folders = NoValue
               /\ USER_SESSIONS'[last'.uid].owner = last'.id
               /\ \A v \in Users \ {last'.uid} : USER_SESSIONS'[v] = USER_SESSIONS[v]]_vars

\* /uploadtomega with an argument that has whitespace around it has just
\* replaced a session of its user that held folders, the other user holding
\* a session too.
C4_Witness ==
    /\ last.kind = "cmd" /\ last.ev = "start" /\ last.id = 3
    /\ last.args[1] = <<" ", "x">>
    /\ USER_SESSIONS[last.uid].url = <<"x">>
    /\ USER_SESSIONS[last.uid].folders = NoValue
    /\ \E c \in TaskIds : tasks[c].keyboard # <<>> /\ tasks[c].uid = last.uid
    /\ \E v \in Users \ {last.uid} : USER_SESSIONS[v].present

\* C6: every blocking library call in progress runs on a worker of the pool,
\* none on the event loop, and at most max_workers of them run at once.
BlockingCalls ==
    {t \in TaskIds : tasks[t].pc \in {"tree_running", "dl_extract", "dl_list", "uploading"}}
C6_BlockingCallsOnThePool ==
    /\ BlockingCalls \subseteq Running
    /\ loop = 0
    /\ Cardinality(BlockingCalls) <= max_workers

\* C7: when the login or the listing failed, /uploadtomega ends on "Error
\* fetching MEGA folders" with that exception; it ends on "No folders found
\* in MEGA account." only when both succeeded and the account has no named
\* folder.
C7_ListingFailureIsReported ==
    (last.kind = "cmd" /\ last.ev = "return" /\ last.msg # "usage") =>
        /\ last.log \in {"login", "get_files"} =>
                (last.msg = "fetch_error" /\ last.exc = last.log)
        /\ last.msg = "no_folders" =>
                (last.log = "none" /\ NamedFolders(folder_nodes(files)) = {})

\* C8: the listener is started before main does anything else, and for as
\* long as the bot runs it is there to answer the next probe, whatever the
\* earlier probes and the flows did: no probe goes unanswered because the
\* thread is gone.
C8_ProbesAlwaysAnswered ==
    /\ mainPc \in {"health_started", "polling"} => health = "listening"
    /\ lastProbe # "refused"

\* C10: the callback data of every button of every keyboard presented parses
\* back into the uid, the folder id and the path the button was built from,
\* and pressing it is never answered with "Invalid selection data.".
C10_ButtonsParseBack ==
    /\ \A c \in TaskIds : \A i \in 1..Len(tasks[c].keyboard) :
        LET b == tasks[c].keyboard[i]
            q == ParseCallback(b.data)
        IN q.ok /\ q.uid = b.uid /\ q.nodeid = b.nid /\ q.folder_path = b.path
    /\ (last.kind = "cb" /\ last.origin # 0) => last.msg # "invalid"

\* C11: for the session stored by one /uploadtomega command the downloader
\* is called at most once and at most one upload is done, however often the
\* buttons of the command are pressed.
C11_OneDownloadPerSession ==
    \A c \in TaskIds : performed[c].dl <= 1 /\ performed[c].up <= 1

\* C12: a flow started from the buttons of an earlier /uploadtomega of a
\* user leaves the session of a later /uploadtomega of that user alone. A
\* command whose listing returned folders ends with its buttons presented
\* and, unless a later command has stored a session since, with
\* USER_SESSIONS[uid] holding its url and these folders; and the session a
\* flow reads, and removes at its end, is the one stored by the command
\* whose button was pressed, so that no selection on the later buttons
\* finds its session gone by a flow of the earlier ones.
C12_EarlierFlowLeavesLaterSession ==
    /\ (/\ last.kind = "cmd" /\ last.ev = "return" /\ last.msg # "usage"
        /\ last.log = "none" /\ last.exc # "telegram"
        /\ NamedFolders(folder_nodes(files)) # {}) =>
            /\ last.msg = "select"
            /\ USER_SESSIONS[last.uid].owner <= last.id =>
                    /\ USER_SESSIONS[last.uid].present
                    /\ USER_SESSIONS[last.uid].owner = last.id
                    /\ USER_SESSIONS[last.uid].url = last.url
                    /\ USER_SESSIONS[last.uid].folders # NoValue
    /\ (last.kind = "cb" /\ last.sess # 0) => last.sess = last.origin

\* The session stored by command c is still in use: the command is still
\* running, or its buttons are presented, or a flow that read it is running.
SessionInUse(c) ==
    \/ tasks[c].kind = "cmd" /\ tasks[c].pc # "done"
    \/ tasks[c].kind = "cmd" /\ tasks[c].keyboard # <<>>
    \/ \E t \in TaskIds : tasks[t].kind = "cb" /\ tasks[t].pc # "done" /\ tasks[t].sess = c

\* C13: /uploadtomega that ends on "No folders found in MEGA account." or
\* on "Error fetching MEGA folders" leaves USER_SESSIONS without an entry
\* for its user; and every entry of USER_SESSIONS is that of a command
\* still running, of buttons presented, or of a flow in progress.
C13_NoStaleSession ==
    /\ (last.kind = "cmd" /\ last.ev = "return" /\ last.msg \in {"no_folders", "fetch_error"}) =>
            ~USER_SESSIONS[last.uid].present
    /\ \A u \in Users : USER_SESSIONS[u].present => SessionInUse(USER_SESSIONS[u].owner)

\* The positions of "|" in data, and the text between the first two of them.
Bars(data) == {i \in 1..Len(data) : data[i] = "|"}
UidField(data) ==
    LET i == CHOOSE k \in Bars(data) : \A l \in Bars(data) : k <= l
        j == CHOOSE k \in Bars(data) \ {i} : \A l \in Bars(data) \ {i} : k <= l
    IN SubSeq(data, i + 1, j - 1)
\* s reads as the decimal integer u, whitespace around it allowed.
ReadsAs(s, u) == IsStripped(IntToStr(u), s)
\* data has exactly four "|"-separated fields, the second an integer.
Servable(data) ==
    /\ Cardinality(Bars(data)) = 3
    /\ \E u \in 0..99 : ReadsAs(UidField(data), u)

\* C14: a callback whose data is not four "|"-separated fields with an
\* integer uid is answered "Invalid selection data.", one whose uid has no
\* entry in USER_SESSIONS "Session expired. Run /uploadtomega again."; in
\* both cases the handler returns at once, hands nothing to the executor,
\* starts no download or upload and leaves USER_SESSIONS as it was.
C14_UnservableCallbackChangesNothing ==
    [][(ntasks' = ntasks + 1 /\ last'.kind = "cb") =>
          LET data == last'.data
              unserved == /\ last'.ev = "return"
                          /\ tasks'[last'.id].pc = "done"
                          /\ \A t \in TaskIds \ {last'.id} : tasks'[t] = tasks[t]
                          /\ USER_SESSIONS' = USER_SESSIONS
                          /\ queue' = queue /\ loop' = loop
                          /\ dir' = dir /\ performed' = performed
          IN IF ~Servable(data) THEN last'.msg = "invalid" /\ unserved
             ELSE IF ~\E u \in Users : ReadsAs(UidField(data), u) /\ USER_SESSIONS[u].present
             THEN last'.msg = "expired" /\ unserved
             ELSE last'.msg = "downloading" /\ last'.ev = "start"]_vars

\* A press on a button whose flow has already ended is answered "Session
\* expired" while the other user holds a session.
C14_Witness ==
    /\ last.kind = "cb" /\ last.ev = "return" /\ last.msg = "expired"
    /\ last.origin # 0 /\ Servable(last.data)
    /\ \E v \in Users : USER_SESSIONS[v].present

\* C15: a flow reads and removes the session of the user who sent the
\* callback query only: the uid whose session callback_handler acts on is
\* the id of the sender, from the lookup to the pop.
C15_OnlyTheSendersSession ==
    /\ \A t \in TaskIds :
        (tasks[t].kind = "cb" /\ tasks[t].pc # "done") => tasks[t].uid = tasks[t].sender
    /\ FlowReturned => last.uid = last.sender

\* C16: the list build_folder_tree returns is in ascending order of path,
\* holds no (path, id) pair twice and no folder id twice; when the login or
\* the listing failed it is empty.
C16_SortedWithoutDuplicates ==
    tpc = "done" =>
        /\ terr # "none" => tresult = <<>>
        /\ \A i, j \in 1..Len(tresult) :
            i < j => /\ ~StrLess(tresult[j][1], tresult[i][1])
                     /\ tresult[i] # tresult[j]
                     /\ tresult[i][2] # tresult[j][2]

\* A returned list of three folders whose order by path is the reverse of
\* the order of the listing.
C16_Witness ==
    /\ tpc = "done" /\ terr = "none" /\ Len(tresult) = 3
    /\ tresult[1][2] = Handle(3) /\ tresult[3][2] = Handle(1)
    /\ StrLess(tresult[1][1], tresult[2][1]) /\ StrLess(tresult[2][1], tresult[3][1])
====
